---- MODULE Spec2Model ----
(***************************************************************************)
(* A model of the go-libsvm wrapper (src/libsvm.go): the Go wrapper        *)
(* objects SvmModel and SvmNode, the native heap of svm_model handles they *)
(* point into, the files the native library reads and writes, and the      *)
(* exported operations Train, Load, FreeModel, Save, Predict,              *)
(* PredictValues, NewExample and SvmNode.Free.                             *)
(*                                                                         *)
(* The native library (libsvm, reached through cgo) is the environment:    *)
(* each native call is a nondeterministic choice over the results the      *)
(* library can give.  A native call on a released handle, or C.free on     *)
(* memory that malloc did not return, is undefined behaviour: the model    *)
(* lets it either end the process (crashed) or return any result.          *)
(***************************************************************************)
EXTENDS Integers, Sequences, FiniteSets, TLC

VARIABLES
    models,     \* the SvmModel wrappers allocated so far; a *SvmModel is an index
    nodes,      \* the SvmNode wrappers allocated so far; a *SvmNode is an index
    arrays,     \* the svm_node arrays NewExample has made; node.object indexes them
    heap,       \* the native svm_model objects: [live, content]
    files,      \* the file system: filename -> saved model content or NoFile
    last,       \* the last exported call: its arguments, results and native calls
    crashed,    \* the process has died (panic or native fault)
    pc,         \* concurrent Predict: each caller's position in Predict
    call,       \* concurrent Predict: each caller's (mdl, node) arguments
    ret,        \* concurrent Predict: each caller's returned (val, err)
    exIn,       \* NewExample alone: the inputs (startIndex, data)
    exOut       \* NewExample alone: the node and array it built

vars == <<models, nodes, arrays, heap, files, last, crashed, pc, call, ret, exIn, exOut>>

apiVars == <<models, nodes, arrays, heap, files, last, crashed>>
concVars == <<pc, call, ret>>
exVars == <<exIn, exOut>>

----------------------------------------------------------------------------
(* Bounds of the model *)

MaxModels == 1      \* SvmModel wrappers allocated in one run
MaxNodes == 1       \* SvmNode wrappers allocated in one run
MaxHandles == 1     \* native svm_model objects allocated in one run
MaxLen == 2         \* longest data slice given to NewExample
NumCallers == 2     \* goroutines calling Predict concurrently

----------------------------------------------------------------------------
(* Values *)

NULL == 0           \* a nil C pointer / nil Go pointer
NilRef == 0         \* a nil *SvmModel or *SvmNode

MaxCInt == 2147483647
MinCInt == -MaxCInt - 1

\* float64 values of the features
Values == {0, 1}

\* start indices: ordinary ones, zero, negative ones and the top of the C int range
StartIndices == {-3, -2, -1, 0, 1, 2, MaxCInt - 2, MaxCInt - 1, MaxCInt}

RECURSIVE SeqsUpTo(_, _)
SeqsUpTo(S, n) ==
    IF n = 0 THEN {<<>>}
    ELSE LET shorter == SeqsUpTo(S, n - 1)
         IN shorter \cup {Append(s, x) : s \in {t \in shorter : Len(t) = n - 1}, x \in S}

DataSlices == SeqsUpTo(Values, MaxLen)

\* file names, as sequences of characters
Filenames == {<<"a">>, <<"b", "m">>}

\* what a native svm_model holds, as far as the wrapper's callers can observe:
\* rho shifts the decision value, prob says whether calibration parameters exist
Contents == {[rho |-> 0, prob |-> FALSE], [rho |-> 1, prob |-> TRUE]}

\* a file that is absent, or holds no model the native loader accepts
NoFile == [rho |-> -1, prob |-> FALSE]

----------------------------------------------------------------------------
(* SvmError and the messages of the wrapper *)

NilErr == [isNil |-> TRUE, Message |-> <<>>]

SvmError(msg) == [isNil |-> FALSE, Message |-> msg]

\* fmt.Sprintf(prefix + "%s", filename)
Sprintf(prefix, filename) == <<prefix>> \o filename

MsgTrain == <<"error while training. nil model returned">>
MsgLoad(filename) == Sprintf("unable to load model file: ", filename)
MsgFreeNilModel == <<"nil model when attempting to free an svm model">>
MsgFreeNilObject ==
    <<"model object's internal svm_model pointer is nil when attempting to free an svm model">>
MsgSaveNilModel == <<"nil model when attempting to save an svm model">>
MsgSaveNilObject ==
    <<"model object's internal svm_model pointer is nil when attempting to save an svm model">>
MsgSave(filename) == Sprintf("unable to save model to file: ", filename)
MsgPredictNilModel == <<"nil model when attempting to predict using an svm model">>
MsgPredictNilObject ==
    <<"model object's internal svm_model pointer is nil when attempting to predict using an svm model">>
MsgPredictNilNode == <<"nil node when attempting to predict using an svm model">>
MsgPredictNilNodeObject ==
    <<"node object's internal svm_node pointer is nil when attempting to predict using an svm model">>

\* SvmError.Error()
Error(err) == err.Message

\* does the message contain the text s (a sequence of characters)?
Contains(msg, s) ==
    \E i \in 1..(Len(msg) + 1) :
        /\ i + Len(s) - 1 <= Len(msg)
        /\ SubSeq(msg, i, i + Len(s) - 1) = s

----------------------------------------------------------------------------
(* NewExample *)

TERMINATOR == [index |-> -1, value |-> 0]

\* C.int(sidx + i): the Go int sum (64 bits, exact for the start indices of the
\* model) truncated to the 32 bits of a C int
CInt(sidx, i) ==
    IF sidx > 0 /\ i > MaxCInt - sidx
    THEN MinCInt + (i - (MaxCInt - sidx) - 1)
    ELSE sidx + i

\* the array res that NewExample fills: len(data)+1 cells
ExampleArray(startIndex, data) ==
    [k \in 1..(Len(data) + 1) |->
        IF k <= Len(data)
        THEN [index |-> CInt(startIndex, k - 1), value |-> data[k]]
        ELSE [index |-> -1, value |-> 0]]

\* the SvmNode that NewExample returns, its array being arrays[ptr]
ExampleNode(ptr, data) == [object |-> ptr, length |-> Len(data)]

----------------------------------------------------------------------------
(* The native library, as the wrapper sees it *)

\* how many cells a native reader sees: it scans up to the first index -1
RECURSIVE ScanFrom(_, _)
ScanFrom(arr, k) ==
    IF k > Len(arr) \/ arr[k].index = -1 THEN 0 ELSE 1 + ScanFrom(arr, k + 1)

ScanLen(arr) == ScanFrom(arr, 1)

RECURSIVE SumValues(_, _)
SumValues(arr, n) == IF n = 0 THEN 0 ELSE arr[n].value + SumValues(arr, n - 1)

\* svm_predict on a live model: a function of the model and of the cells it scans
svm_predict(content, arr) == content.rho + SumValues(arr, ScanLen(arr))

\* the examples the callers of specification Spec build: NewExample(1, data)
ApiStart == 1
ApiData == {<<>>, <<1>>}
ApiArrays == {ExampleArray(ApiStart, d) : d \in ApiData}

\* what svm_predict can return at all (also from a released handle)
PredictRange == {svm_predict(c, a) : c \in Contents, a \in ApiArrays}

\* one native call, as logged in last.calls
NativeCall(fn, ptr, stale, result) ==
    [fn |-> fn, ptr |-> ptr, stale |-> stale, result |-> result]

----------------------------------------------------------------------------
(* The exported operations, each an atomic call (specification Spec) *)

ModelRefs == {NilRef} \cup (1..Len(models))
NodeRefs == {NilRef} \cup (1..Len(nodes))

NoCall == [op |-> "none", m |-> NilRef, n |-> NilRef, filename |-> <<>>,
           returned |-> TRUE, rmdl |-> NilRef, val |-> 0, err |-> NilErr,
           calls |-> <<>>]

\* is handle h released?
Stale(h) == ~heap[h].live

\* a caller makes a zero-valued wrapper: &SvmModel{} has a nil object
ZeroSvmModel ==
    /\ ~crashed
    /\ Len(models) < MaxModels
    /\ models' = Append(models, [object |-> NULL])
    /\ last' = [NoCall EXCEPT !.op = "ZeroSvmModel", !.rmdl = Len(models) + 1]
    /\ UNCHANGED <<nodes, arrays, heap, files, crashed, concVars, exVars>>

\* a caller makes a zero-valued wrapper: &SvmNode{} has a nil object and length 0
ZeroSvmNode ==
    /\ ~crashed
    /\ Len(nodes) < MaxNodes
    /\ nodes' = Append(nodes, [object |-> NULL, length |-> 0])
    /\ last' = [NoCall EXCEPT !.op = "ZeroSvmNode", !.n = Len(nodes) + 1]
    /\ UNCHANGED <<models, arrays, heap, files, crashed, concVars, exVars>>

\* NewExample(startIndex, data), with the inputs of the test
NewExample ==
    /\ ~crashed
    /\ Len(nodes) < MaxNodes
    /\ \E data \in ApiData :
        /\ arrays' = Append(arrays, ExampleArray(ApiStart, data))
        /\ nodes' = Append(nodes, ExampleNode(Len(arrays) + 1, data))
        /\ last' = [NoCall EXCEPT !.op = "NewExample", !.n = Len(nodes) + 1]
    /\ UNCHANGED <<models, heap, files, crashed, concVars, exVars>>

\* a Free that clears the length and forgets the pointer
FreedNodeKeepsPointer(node) == [node EXCEPT !.length = 0]

\* what SvmNode.Free leaves in the node
FreedNode(node) == [node EXCEPT !.length = 0, !.object = NULL]

\* node.Free(): C.free(node.object), then the fields are cleared.  On a nil node
\* the field read panics.  A non-nil object is Go memory (NewExample's slice),
\* which malloc never returned: the native free may abort the process or return.
NodeFree ==
    /\ ~crashed
    /\ \E n \in NodeRefs :
        LET freeCall == NativeCall("free", IF n = NilRef THEN NULL ELSE nodes[n].object, FALSE, 0)
            done == [NoCall EXCEPT !.op = "Free", !.n = n, !.calls = <<freeCall>>]
        IN  \/ /\ n = NilRef
               /\ crashed' = TRUE
               /\ last' = [NoCall EXCEPT !.op = "Free", !.n = n, !.returned = FALSE]
               /\ UNCHANGED nodes
            \/ /\ n # NilRef
               /\ nodes[n].object # NULL
               /\ crashed' = TRUE
               /\ last' = [done EXCEPT !.returned = FALSE]
               /\ UNCHANGED nodes
            \/ /\ n # NilRef
               /\ nodes' = [nodes EXCEPT ![n] = FreedNode(nodes[n])]
               /\ last' = done
               /\ UNCHANGED crashed
    /\ UNCHANGED <<models, arrays, heap, files, concVars, exVars>>

\* what Train returns for the native result mdl (NULL or a handle)
TrainReturn(mdl) ==
    IF mdl = NULL
    THEN [wrap |-> FALSE, object |-> NULL, err |-> SvmError(MsgTrain)]
    ELSE [wrap |-> TRUE, object |-> mdl, err |-> NilErr]

\* a Load without the nil check on the native result
LoadReturnUnchecked(mdl, filename) == [wrap |-> TRUE, object |-> mdl, err |-> NilErr]

\* what Load returns for the native result mdl (NULL or a handle)
LoadReturn(mdl, filename) ==
    IF mdl = NULL
    THEN [wrap |-> FALSE, object |-> NULL, err |-> SvmError(MsgLoad(filename))]
    ELSE [wrap |-> TRUE, object |-> mdl, err |-> NilErr]

\* the wrapper returned to the caller: a new *SvmModel, or nil
Returned(op, r, filename, calls) ==
    /\ models' = IF r.wrap THEN Append(models, [object |-> r.object]) ELSE models
    /\ last' = [NoCall EXCEPT !.op = op, !.filename = filename,
                              !.rmdl = IF r.wrap THEN Len(models) + 1 ELSE NilRef,
                              !.err = r.err, !.calls = calls]

\* Train(prob, param): svm_train gives NULL or a new model; prob and param are
\* wrappers whose object may be nil, which the native code dereferences
Train ==
    /\ ~crashed
    /\ Len(models) < MaxModels
    /\ \E probOk \in BOOLEAN, paramOk \in BOOLEAN :
        \/ /\ ~(probOk /\ paramOk)
           /\ crashed' = TRUE
           /\ last' = [NoCall EXCEPT !.op = "Train", !.returned = FALSE,
                                     !.calls = <<NativeCall("svm_train", NULL, FALSE, NULL)>>]
           /\ UNCHANGED <<models, heap>>
        \/ /\ Returned("Train", TrainReturn(NULL), <<>>,
                       <<NativeCall("svm_train", NULL, FALSE, NULL)>>)
           /\ UNCHANGED <<heap, crashed>>
        \/ /\ Len(heap) < MaxHandles
           /\ \E c \in Contents :
                heap' = Append(heap, [live |-> TRUE, content |-> c])
           /\ Returned("Train", TrainReturn(Len(heap) + 1), <<>>,
                       <<NativeCall("svm_train", NULL, FALSE, Len(heap) + 1)>>)
           /\ UNCHANGED crashed
    /\ UNCHANGED <<nodes, arrays, files, concVars, exVars>>

\* Load(filename): svm_load_model gives NULL (no such file, a file it cannot
\* parse, no memory) or a new model holding the file's content
Load ==
    /\ ~crashed
    /\ Len(models) < MaxModels
    /\ \E filename \in Filenames :
        \/ /\ Returned("Load", LoadReturn(NULL, filename), filename,
                       <<NativeCall("svm_load_model", NULL, FALSE, NULL)>>)
           /\ UNCHANGED heap
        \/ /\ files[filename] # NoFile
           /\ Len(heap) < MaxHandles
           /\ heap' = Append(heap, [live |-> TRUE, content |-> files[filename]])
           /\ Returned("Load", LoadReturn(Len(heap) + 1, filename), filename,
                       <<NativeCall("svm_load_model", NULL, FALSE, Len(heap) + 1)>>)
    /\ UNCHANGED <<nodes, arrays, files, crashed, concVars, exVars>>

\* the checks FreeModel makes before the native call: the error, or NilErr
FreeModelChecks(m) ==
    IF m = NilRef THEN SvmError(MsgFreeNilModel)
    ELSE IF models[m].object = NULL THEN SvmError(MsgFreeNilObject)
    ELSE NilErr

\* what FreeModel leaves in the wrapper: model_free gets a copy of the pointer,
\* and svm_free_and_destroy_model clears that copy, so mdl.object is as before
FreeModelWrapper(mdl) == mdl

\* FreeModel(mdl): on a live handle the native model is released; on a released
\* handle the native free is a double free
FreeModel ==
    /\ ~crashed
    /\ \E m \in ModelRefs :
        LET err == FreeModelChecks(m)
            h == models[m].object
            base == [NoCall EXCEPT !.op = "FreeModel", !.m = m]
        IN  \/ /\ ~err.isNil
               /\ last' = [base EXCEPT !.err = err]
               /\ UNCHANGED <<models, heap, crashed>>
            \/ /\ err.isNil
               /\ models' = [models EXCEPT ![m] = FreeModelWrapper(models[m])]
               /\ heap' = [heap EXCEPT ![h].live = FALSE]
               /\ last' = [base EXCEPT !.calls = <<NativeCall("model_free", h, Stale(h), 0)>>]
               /\ UNCHANGED crashed
            \/ /\ err.isNil
               /\ Stale(h)
               /\ crashed' = TRUE
               /\ last' = [base EXCEPT !.returned = FALSE,
                                       !.calls = <<NativeCall("model_free", h, TRUE, 0)>>]
               /\ UNCHANGED <<models, heap>>
    /\ UNCHANGED <<nodes, arrays, files, concVars, exVars>>

\* the checks Save makes before the native call: the error, or NilErr
SaveChecks(m) ==
    IF m = NilRef THEN SvmError(MsgSaveNilModel)
    ELSE IF models[m].object = NULL THEN SvmError(MsgSaveNilObject)
    ELSE NilErr

\* a Save whose error message leaves the filename out
SaveReturnNoFilename(cerr, filename) ==
    IF cerr # 0 THEN SvmError(<<"unable to save model to file">>) ELSE NilErr

\* what Save returns for the native result cerr
SaveReturn(cerr, filename) ==
    IF cerr # 0 THEN SvmError(MsgSave(filename)) ELSE NilErr

\* mdl.Save(filename): svm_save_model returns 0 and the file holds the model, or
\* returns -1 and the file is as before (it could not be opened) or holds no
\* model (the write failed after the file was truncated).  On a released handle
\* the native save reads freed memory: it may fault, or write and return anything.
Save ==
    /\ ~crashed
    /\ \E m \in ModelRefs, filename \in Filenames :
        LET err == SaveChecks(m)
            h == models[m].object
            base == [NoCall EXCEPT !.op = "Save", !.m = m, !.filename = filename]
            done(cerr) == [base EXCEPT !.err = SaveReturn(cerr, filename),
                                       !.calls = <<NativeCall("svm_save_model", h, Stale(h), cerr)>>]
        IN  \/ /\ ~err.isNil
               /\ last' = [base EXCEPT !.err = err]
               /\ UNCHANGED <<files, crashed>>
            \/ /\ err.isNil
               /\ \E c \in (IF Stale(h) THEN Contents ELSE {heap[h].content}) :
                    files' = [files EXCEPT ![filename] = c]
               /\ last' = done(0)
               /\ UNCHANGED crashed
            \/ /\ err.isNil
               /\ \E c \in {files[filename], NoFile} :
                    files' = [files EXCEPT ![filename] = c]
               /\ last' = done(-1)
               /\ UNCHANGED crashed
            \/ /\ err.isNil
               /\ Stale(h)
               /\ crashed' = TRUE
               /\ last' = [base EXCEPT !.returned = FALSE,
                                       !.calls = <<NativeCall("svm_save_model", h, TRUE, -1)>>]
               /\ UNCHANGED files
    /\ UNCHANGED <<models, nodes, arrays, heap, concVars, exVars>>

\* a Predict that looks at the node before it looks at the model's handle
PredictChecksNodeFirst(m, n) ==
    IF m = NilRef THEN SvmError(MsgPredictNilModel)
    ELSE IF n = NilRef THEN SvmError(MsgPredictNilNode)
    ELSE IF models[m].object = NULL THEN SvmError(MsgPredictNilObject)
    ELSE IF nodes[n].object = NULL THEN SvmError(MsgPredictNilNodeObject)
    ELSE NilErr

\* the checks Predict makes before the native call, in the code's order: the
\* error of the first check that fails, or NilErr
PredictChecks(m, n) ==
    IF m = NilRef THEN SvmError(MsgPredictNilModel)
    ELSE IF models[m].object = NULL THEN SvmError(MsgPredictNilObject)
    ELSE IF n = NilRef THEN SvmError(MsgPredictNilNode)
    ELSE IF nodes[n].object = NULL THEN SvmError(MsgPredictNilNodeObject)
    ELSE NilErr

\* what C.svm_predict(mdl.object, node.object) can return: the prediction of a
\* live model, anything from a released one
NativePredict(m, n) ==
    IF Stale(models[m].object) THEN PredictRange
    ELSE {svm_predict(heap[models[m].object].content, arrays[nodes[n].object])}

\* mdl.Predict(node)
Predict ==
    /\ ~crashed
    /\ \E m \in ModelRefs, n \in NodeRefs :
        LET err == PredictChecks(m, n)
            h == models[m].object
            base == [NoCall EXCEPT !.op = "Predict", !.m = m, !.n = n]
        IN  \/ /\ ~err.isNil
               /\ last' = [base EXCEPT !.val = -1, !.err = err]
               /\ UNCHANGED crashed
            \/ /\ err.isNil
               /\ \E v \in NativePredict(m, n) :
                    last' = [base EXCEPT !.val = v,
                                         !.calls = <<NativeCall("svm_predict", h, Stale(h), v)>>]
               /\ UNCHANGED crashed
            \/ /\ err.isNil
               /\ Stale(h)
               /\ crashed' = TRUE
               /\ last' = [base EXCEPT !.returned = FALSE,
                                       !.calls = <<NativeCall("svm_predict", h, TRUE, 0)>>]
    /\ UNCHANGED <<models, nodes, arrays, heap, files, concVars, exVars>>

\* what mdl.PredictValues() returns: a nil slice, and no error, for every model
PredictValuesReturn(m) == [values |-> <<>>, err |-> NilErr]

\* mdl.PredictValues(): takes no node, reads nothing of the model
PredictValues ==
    /\ ~crashed
    /\ \E m \in ModelRefs :
        last' = [NoCall EXCEPT !.op = "PredictValues", !.m = m,
                               !.err = PredictValuesReturn(m).err]
    /\ UNCHANGED <<models, nodes, arrays, heap, files, crashed, concVars, exVars>>

----------------------------------------------------------------------------
(* Specification Spec: any sequence of exported calls *)

\* the file system before the program runs: one model file (the test's
\* testdata/a1a.model), nothing under the other name
InitFiles ==
    [f \in Filenames |-> IF f = <<"a">> THEN [rho |-> 0, prob |-> FALSE] ELSE NoFile]

IdleConc ==
    /\ pc = [c \in 1..NumCallers |-> "idle"]
    /\ call = [c \in 1..NumCallers |-> [m |-> NilRef, n |-> NilRef]]
    /\ ret = [c \in 1..NumCallers |-> [val |-> 0, err |-> NilErr]]

IdleExample ==
    /\ exIn = [startIndex |-> ApiStart, data |-> <<>>]
    /\ exOut = [built |-> FALSE, node |-> [object |-> NULL, length |-> 0], res |-> <<>>]

Init ==
    /\ models = <<>>
    /\ nodes = <<>>
    /\ arrays = <<>>
    /\ heap = <<>>
    /\ files = InitFiles
    /\ last = NoCall
    /\ crashed = FALSE
    /\ IdleConc
    /\ IdleExample

Next ==
    \/ ZeroSvmModel
    \/ ZeroSvmNode
    \/ NewExample
    \/ NodeFree
    \/ Train
    \/ Load
    \/ FreeModel
    \/ Save
    \/ Predict
    \/ PredictValues

Spec == Init /\ [][Next]_vars

----------------------------------------------------------------------------
(* Specification SpecPredict: several goroutines inside mdl.Predict at once, *)
(* each statement of Predict one step                                        *)

Callers == 1..NumCallers

\* the wrappers the goroutines share, after mdl, _ := Load("a"), &SvmModel{},
\* NewExample(1, data) and &SvmNode{}: models[1] has a live handle, models[2] a
\* nil one; nodes[1] points to its array, nodes[2] has a nil pointer
InitShared ==
    /\ heap \in {<<[live |-> TRUE, content |-> c]>> : c \in Contents}
    /\ models = <<[object |-> 1], [object |-> NULL]>>
    /\ \E data \in ApiData :
        /\ arrays = <<ExampleArray(ApiStart, data)>>
        /\ nodes = <<ExampleNode(1, data), [object |-> NULL, length |-> 0]>>
    /\ files = InitFiles
    /\ last = NoCall
    /\ crashed = FALSE

InitPredict ==
    /\ InitShared
    /\ IdleConc
    /\ IdleExample

\* a goroutine calls mdl.Predict(node)
PredictEnter(c) ==
    /\ pc[c] = "idle"
    /\ \E m \in ModelRefs, n \in NodeRefs :
        call' = [call EXCEPT ![c] = [m |-> m, n |-> n]]
    /\ pc' = [pc EXCEPT ![c] = "mdl"]
    /\ UNCHANGED <<ret, apiVars, exVars>>

\* return -1, SvmError{...}
PredictFail(c, msg) ==
    /\ ret' = [ret EXCEPT ![c] = [val |-> -1, err |-> SvmError(msg)]]
    /\ pc' = [pc EXCEPT ![c] = "done"]

PredictGoto(c, label) ==
    /\ pc' = [pc EXCEPT ![c] = label]
    /\ UNCHANGED ret

\* if mdl == nil
PredictCheckModel(c) ==
    /\ pc[c] = "mdl"
    /\ IF call[c].m = NilRef
       THEN PredictFail(c, MsgPredictNilModel)
       ELSE PredictGoto(c, "mdl.object")
    /\ UNCHANGED <<call, apiVars, exVars>>

\* if mdl.object == nil
PredictCheckObject(c) ==
    /\ pc[c] = "mdl.object"
    /\ IF models[call[c].m].object = NULL
       THEN PredictFail(c, MsgPredictNilObject)
       ELSE PredictGoto(c, "node")
    /\ UNCHANGED <<call, apiVars, exVars>>

\* if node == nil
PredictCheckNode(c) ==
    /\ pc[c] = "node"
    /\ IF call[c].n = NilRef
       THEN PredictFail(c, MsgPredictNilNode)
       ELSE PredictGoto(c, "node.object")
    /\ UNCHANGED <<call, apiVars, exVars>>

\* if node.object == nil
PredictCheckNodeObject(c) ==
    /\ pc[c] = "node.object"
    /\ IF nodes[call[c].n].object = NULL
       THEN PredictFail(c, MsgPredictNilNodeObject)
       ELSE PredictGoto(c, "svm_predict")
    /\ UNCHANGED <<call, apiVars, exVars>>

\* a Predict that releases the node once the native call has used it
PredictEffectFreesNode(c) ==
    /\ nodes' = [nodes EXCEPT ![call[c].n] = FreedNode(@)]
    /\ UNCHANGED <<models, arrays, heap, files, last, crashed>>

\* what the native call of Predict leaves in the shared wrappers: svm_predict
\* reads the model and the node and writes neither
PredictEffect(c) == UNCHANGED apiVars

\* return float64(C.svm_predict(mdl.object, node.object)), nil
PredictNative(c) ==
    /\ pc[c] = "svm_predict"
    /\ \E v \in NativePredict(call[c].m, call[c].n) :
        ret' = [ret EXCEPT ![c] = [val |-> v, err |-> NilErr]]
    /\ pc' = [pc EXCEPT ![c] = "done"]
    /\ PredictEffect(c)
    /\ UNCHANGED <<call, exVars>>

\* the caller has taken the result and may call again
PredictLeave(c) ==
    /\ pc[c] = "done"
    /\ pc' = [pc EXCEPT ![c] = "idle"]
    /\ call' = [call EXCEPT ![c] = [m |-> NilRef, n |-> NilRef]]
    /\ ret' = [ret EXCEPT ![c] = [val |-> 0, err |-> NilErr]]
    /\ UNCHANGED <<apiVars, exVars>>

NextPredict ==
    \/ \E c \in Callers : PredictEnter(c)
    \/ \E c \in Callers : PredictCheckModel(c)
    \/ \E c \in Callers : PredictCheckObject(c)
    \/ \E c \in Callers : PredictCheckNode(c)
    \/ \E c \in Callers : PredictCheckNodeObject(c)
    \/ \E c \in Callers : PredictNative(c)
    \/ \E c \in Callers : PredictLeave(c)

SpecPredict == InitPredict /\ [][NextPredict]_vars

----------------------------------------------------------------------------
(* Specification SpecExample: NewExample on every start index and data slice *)

InitExample ==
    /\ models = <<>>
    /\ nodes = <<>>
    /\ arrays = <<>>
    /\ heap = <<>>
    /\ files = InitFiles
    /\ last = NoCall
    /\ crashed = FALSE
    /\ IdleConc
    /\ exIn \in [startIndex : StartIndices, data : DataSlices]
    /\ exOut = [built |-> FALSE, node |-> [object |-> NULL, length |-> 0], res |-> <<>>]

\* NewExample(exIn.startIndex, exIn.data): res is the array, node the wrapper
\* whose object is &res[0]
BuildExample ==
    /\ ~exOut.built
    /\ exOut' = [built |-> TRUE,
                 node |-> ExampleNode(1, exIn.data),
                 res |-> ExampleArray(exIn.startIndex, exIn.data)]
    /\ UNCHANGED <<exIn, apiVars, concVars>>

NextExample == BuildExample

SpecExample == InitExample /\ [][NextExample]_vars

----------------------------------------------------------------------------
(* The claims *)

\* the model and node of the last call are usable: non-nil wrappers with
\* non-nil native pointers
ModelUsable(m) == m # NilRef /\ models[m].object # NULL
NodeUsable(n) == n # NilRef /\ nodes[n].object # NULL

\* C1: Train and Load return exactly one of a model and an error: (nil,
\* SvmError) when the native call gave NULL, otherwise (a wrapper holding the
\* native handle, nil).
C1_TrainLoadReturn ==
    (last.op \in {"Train", "Load"} /\ last.returned) =>
        /\ Len(last.calls) = 1
        /\ IF last.calls[1].result = NULL
           THEN last.rmdl = NilRef /\ ~last.err.isNil
           ELSE /\ last.rmdl # NilRef
                /\ models[last.rmdl].object = last.calls[1].result
                /\ models[last.rmdl].object # NULL
                /\ last.err.isNil

\* Load has returned (nil, error) after the native loader gave NULL
C1_Witness ==
    /\ last.op = "Load"
    /\ last.returned
    /\ last.calls[1].result = NULL
    /\ last.rmdl = NilRef
    /\ last.err = SvmError(MsgLoad(last.filename))

\* C2: Predict returns (native value, nil) when model, handle, node and node
\* pointer are all non-nil; otherwise (-1, SvmError) with no native call, the
\* error being that of the first failing check in the order model, handle,
\* node, node pointer.
C2_PredictReturn ==
    (last.op = "Predict" /\ last.returned) =>
        LET m == last.m
            n == last.n
        IN  IF ModelUsable(m) /\ NodeUsable(n)
            THEN /\ last.err.isNil
                 /\ Len(last.calls) = 1
                 /\ last.calls[1].fn = "svm_predict"
                 /\ last.calls[1].ptr = models[m].object
                 /\ last.val = last.calls[1].result
                 /\ heap[models[m].object].live =>
                        last.val = svm_predict(heap[models[m].object].content,
                                               arrays[nodes[n].object])
            ELSE /\ last.val = -1
                 /\ last.calls = <<>>
                 /\ ~last.err.isNil
                 /\ (m = NilRef) => Error(last.err) = MsgPredictNilModel
                 /\ (m # NilRef /\ models[m].object = NULL) =>
                        Error(last.err) = MsgPredictNilObject
                 /\ (ModelUsable(m) /\ n = NilRef) =>
                        Error(last.err) = MsgPredictNilNode
                 /\ (ModelUsable(m) /\ n # NilRef /\ nodes[n].object = NULL) =>
                        Error(last.err) = MsgPredictNilNodeObject

\* Predict has failed on a model with a nil handle and a nil node: two checks
\* fail, and the handle's error is the one reported
C2_Witness ==
    /\ last.op = "Predict"
    /\ last.m # NilRef
    /\ models[last.m].object = NULL
    /\ last.n = NilRef
    /\ last.val = -1
    /\ Error(last.err) = MsgPredictNilObject

C3_SaveState ==
    (last.op = "Save" /\ last.returned) =>
        IF ~ModelUsable(last.m)
        THEN ~last.err.isNil /\ last.calls = <<>>
        ELSE /\ Len(last.calls) = 1
             /\ last.calls[1].fn = "svm_save_model"
             /\ last.err.isNil <=> (last.calls[1].result = 0)
             /\ ~last.err.isNil => Contains(Error(last.err), last.filename)

C3_SaveWrites ==
    (files' # files) =>
        /\ last'.op = "Save"
        /\ ModelUsable(last'.m)
        /\ last'.calls # <<>>

\* C3: Save on a nil model or a nil handle returns an error without the native
\* save, and no file changes; on a non-nil handle Save returns nil exactly
\* when the native save returned 0, and its error message holds the filename.
C3_Save == [](C3_SaveState) /\ [][C3_SaveWrites]_vars

\* Save has failed in the native library on a model with a handle
C3_Witness ==
    /\ last.op = "Save"
    /\ last.returned
    /\ ModelUsable(last.m)
    /\ last.calls[1].result # 0
    /\ last.err = SvmError(MsgSave(last.filename))

\* C5: NewExample builds len(data)+1 cells, cell i holding index startIndex+i
\* (as a C int) and value data[i], then the sentinel; the length is len(data);
\* the indices of the data cells are strictly increasing.
C5_ExampleShape ==
    exOut.built =>
        LET res == exOut.res
            data == exIn.data
        IN  /\ Len(res) = Len(data) + 1
            /\ \A i \in 1..Len(data) :
                /\ res[i].index = CInt(exIn.startIndex, i - 1)
                /\ res[i].value = data[i]
            /\ res[Len(data) + 1] = TERMINATOR
            /\ exOut.node.length = Len(data)
            /\ \A i, j \in 1..Len(data) : i < j => res[i].index < res[j].index

\* what mdl.Predict(node) returns when it runs alone on a live model
PredictAlone(m, n) ==
    LET err == PredictChecks(m, n)
    IN  IF err.isNil
        THEN [val |-> svm_predict(heap[models[m].object].content, arrays[nodes[n].object]),
              err |-> NilErr]
        ELSE [val |-> -1, err |-> err]

C6_SameAsAlone ==
    \A c \in Callers : pc[c] = "done" => ret[c] = PredictAlone(call[c].m, call[c].n)

\* C6: concurrent Predict calls on shared wrappers each return what the call
\* returns when run alone, and Predict changes no model, handle or node.
C6_ConcurrentPredict ==
    [](C6_SameAsAlone) /\ [][UNCHANGED <<models, nodes, arrays, heap>>]_vars

\* two goroutines have finished Predict on the same model and node, both with
\* the native value
C6_Witness ==
    /\ pc[1] = "done"
    /\ pc[2] = "done"
    /\ call[1] = call[2]
    /\ ModelUsable(call[1].m)
    /\ NodeUsable(call[1].n)
    /\ ret[1].err.isNil
    /\ ret[2] = ret[1]

\* C7: the probability prediction of the library fails with an error
\* (NoProbabilityModel) on a model that carries no calibration parameters.
C7_NoProbabilityModel ==
    ( /\ last.op = "PredictValues"
      /\ ModelUsable(last.m)
      /\ heap[models[last.m].object].live
      /\ ~heap[models[last.m].object].content.prob ) => ~last.err.isNil

\* C8: no native call is ever made on a handle that FreeModel has released.
C8_NoUseAfterFree ==
    \A i \in 1..Len(last.calls) : ~last.calls[i].stale

C9_FreeState ==
    /\ (last.op = "Free" /\ last.returned) =>
            nodes[last.n] = [object |-> NULL, length |-> 0]
    /\ (last.op = "Predict" /\ last.returned /\ last.n # NilRef
            /\ nodes[last.n].object = NULL) =>
            /\ last.val = -1
            /\ ~last.err.isNil
            /\ last.calls = <<>>

C9_FreeStep ==
    /\ \A n \in 1..Len(nodes) : nodes[n].object = NULL => nodes'[n] = nodes[n]
    /\ (last'.op = "Free" /\ last'.returned /\ nodes[last'.n].object = NULL) =>
            /\ last'.calls = <<NativeCall("free", NULL, FALSE, 0)>>
            /\ nodes' = nodes

\* C9: SvmNode.Free leaves a nil pointer and length 0; a node with a nil
\* pointer keeps it; Predict with such a node returns (-1, error) without a
\* native call; Free on it passes nil to the native free and changes nothing.
C9_Free == [](C9_FreeState) /\ [][C9_FreeStep]_vars

\* Predict on a model with a handle has failed on a node that NewExample built
\* and Free cleared
C9_Witness ==
    /\ last.op = "Predict"
    /\ ModelUsable(last.m)
    /\ last.n # NilRef
    /\ Len(arrays) >= last.n
    /\ nodes[last.n] = [object |-> NULL, length |-> 0]
    /\ last.val = -1
    /\ Error(last.err) = MsgPredictNilNodeObject

\* C10: the sentinel NewExample writes is the first cell with index -1, so a
\* reader scanning to the first index -1 sees exactly len(data) cells, the
\* node's recorded length.
C10_SentinelFirst ==
    exOut.built =>
        /\ ScanLen(exOut.res) = Len(exIn.data)
        /\ ScanLen(exOut.res) = exOut.node.length

====
